---- MODULE Spec2Model ----
(***************************************************************************)
(* Model of inox2d/src/physics.rs: the simple-physics parameter set, the   *)
(* two-variant physics system with its dispatch, the physics driver        *)
(* (SimplePhysics) and the per-frame pass Puppet::update_physics.          *)
(*                                                                         *)
(* f32 values are modelled as records [fin, v]: a finite value is a small  *)
(* integer (on which f32 addition and multiplication are exact), the       *)
(* non-finite values are NaN and Inf.  The pendulum models, the driver's   *)
(* update step and the parameter store live in modules that physics.rs     *)
(* only declares (pendulum, runge_kutta, simple_physics, puppet, params);  *)
(* they are modelled from the design document and marked as such.          *)
(***************************************************************************)
EXTENDS Integers, Sequences, FiniteSets, TLC

VARIABLES
    nodes,       \* Puppet::nodes: the node of each uuid, if any (physics.rs:129)
    drivers,     \* Puppet::drivers: the list of driver uuids (physics.rs:128)
    render_ctx,  \* Puppet::render_ctx.node_render_ctxs (physics.rs:135)
    params,      \* the parameter values Puppet::set_param writes (physics.rs:139)
    panicked,    \* an update_physics call has unwound (physics.rs:135)
    frames,      \* history: how many ticking operations have run
    hist,        \* history: per driver, its initial state and the ticks it was given
    last         \* history: the last operation, its inputs and what it found before

vars == <<nodes, drivers, render_ctx, params, panicked, frames, hist, last>>

\* Bound of the model: the number of ticking operations (tick, update_physics) of a run.
MaxFrames == 2

\* ------------------------------------------------------------------ f32, Vec2

Fin(v) == [fin |-> TRUE, v |-> v]
NaN == [fin |-> FALSE, v |-> 0]
Inf == [fin |-> FALSE, v |-> 1]

FAdd(a, b) ==
    IF a.fin /\ b.fin THEN Fin(a.v + b.v)
    ELSE IF a = NaN \/ b = NaN THEN NaN
    ELSE Inf

FMul(a, b) ==
    IF a.fin /\ b.fin THEN Fin(a.v * b.v)
    ELSE IF a = NaN \/ b = NaN THEN NaN
    ELSE IF a = Fin(0) \/ b = Fin(0) THEN NaN
    ELSE Inf

Vec2(x, y) == [x |-> x, y |-> y]
VecI(x, y) == Vec2(Fin(x), Fin(y))
ZERO == VecI(0, 0)
ONE == VecI(1, 1)
VAdd(a, b) == Vec2(FAdd(a.x, b.x), FAdd(a.y, b.y))
VMul(a, b) == Vec2(FMul(a.x, b.x), FMul(a.y, b.y))
IsFinite(a) == a.x.fin /\ a.y.fin

\* Sine and cosine on angles counted in quarter turns.
Sin(q) == CASE q % 4 = 0 -> 0 [] q % 4 = 1 -> 1 [] q % 4 = 2 -> 0 [] OTHER -> -1
Cos(q) == Sin(q + 1)

Max(a, b) == IF a >= b THEN a ELSE b
Min(a, b) == IF a <= b THEN a ELSE b
Clamp(v, lo, hi) == Max(lo, Min(hi, v))
Sgn(v) == IF v > 0 THEN 1 ELSE IF v < 0 THEN -1 ELSE 0

\* ------------------------------------------------------------------ SimplePhysicsProps

\* A parameter set; the length, frequency and output scale are left at their defaults.
Props(g, ad, oad, ld, old) ==
    [gravity |-> Fin(g), offset_gravity |-> Fin(1),
     length |-> Fin(1), offset_length |-> Fin(1),
     frequency |-> Fin(1), offset_frequency |-> Fin(1),
     angle_damping |-> Fin(ad), offset_angle_damping |-> Fin(oad),
     length_damping |-> Fin(ld), offset_length_damping |-> Fin(old),
     output_scale |-> ONE, offset_output_scale |-> ONE]

\* The parameter sets the puppets of the model are loaded with.
PropsChoices == {Props(1, 1, 2, 2, 3), Props(2, 0, 3, 1, 1)}

\* The parameter sets the damping accessors are tried on.
PropsDomain ==
    {Props(g, ad, oad, ld, old) :
        g \in {1, 2}, ad \in {0, 1, 2}, oad \in {1, 3}, ld \in {0, 2}, old \in {2, 3}}

\* Mutant: the sum instead of the product.
final_angle_damping_sum(p) == FAdd(p.angle_damping, p.offset_angle_damping)

final_angle_damping(p) == FMul(p.angle_damping, p.offset_angle_damping)

final_length_damping(p) == FMul(p.length_damping, p.offset_length_damping)

\* ------------------------------------------------------------------ pendulum systems

\* RigidPendulumSystem::default(): rest state, zero velocity, bob hanging at rest length.
RigidPendulumSystem_default ==
    [kind |-> "RigidPendulum", theta |-> 0, omega |-> 0, prev |-> ZERO, bob |-> VecI(0, 1)]

\* SpringPendulumSystem::default(): no displacement, zero velocity.
SpringPendulumSystem_default ==
    [kind |-> "SpringPendulum", x |-> 0, v |-> 0, prev |-> ZERO, bob |-> VecI(0, 1)]

final_length(p) == Max(FMul(p.length, p.offset_length).v, 1)
final_frequency(p) == Max(FMul(p.frequency, p.offset_frequency).v, 1)
final_gravity(p) == FMul(p.gravity, p.offset_gravity).v
final_output_scale(p) == VMul(p.output_scale, p.offset_output_scale)

\* The rigid pendulum's integration step: angular acceleration from gravity, damping
\* and the anchor's motion since the previous tick, then the bob's new position.
RigidPendulumSystem_step(sys, anchor, props, dt) ==
    LET L == final_length(props)
        drive == Sgn(anchor.x.v - sys.prev.x.v)
        acc == drive - ((final_gravity(props) * Sin(sys.theta)) \div L)
                     - final_angle_damping(props).v * sys.omega
        omega == Clamp(sys.omega + dt * acc, -1, 1)
        theta == (sys.theta + dt * omega) % 4
        bob == VMul(final_output_scale(props),
                    VAdd(anchor, VecI(L * Sin(theta), L * Cos(theta))))
    IN [sys |-> [kind |-> "RigidPendulum", theta |-> theta, omega |-> omega,
                 prev |-> anchor, bob |-> bob],
        out |-> bob]

\* Mutant: the rigid pendulum integrates whatever anchor it is given.
RigidPendulumSystem_tick_nocheck(sys, anchor, props, dt) ==
    RigidPendulumSystem_step(sys, anchor, props, dt)

\* RigidPendulumSystem::tick: a non-finite anchor is rejected (the state is kept and
\* the previous bob position is returned), any other anchor is integrated.
RigidPendulumSystem_tick(sys, anchor, props, dt) ==
    IF ~IsFinite(anchor) THEN [sys |-> sys, out |-> sys.bob]
    ELSE RigidPendulumSystem_step(sys, anchor, props, dt)

\* SpringPendulumSystem::tick: one integration step of the damped spring whose rest
\* position follows the anchor; a non-finite anchor is rejected.
SpringPendulumSystem_tick(sys, anchor, props, dt) ==
    IF ~IsFinite(anchor) THEN [sys |-> sys, out |-> sys.bob]
    ELSE
    LET L == final_length(props)
        k == final_frequency(props) * final_frequency(props)
        disp == Clamp(sys.x - (anchor.x.v - sys.prev.x.v), -1, 1)
        acc == (0 - k * disp) - final_length_damping(props).v * sys.v
        v == Clamp(sys.v + dt * acc, -1, 1)
        x == Clamp(disp + dt * v, -1, 1)
        bob == VMul(final_output_scale(props), VAdd(anchor, VecI(x, L)))
    IN [sys |-> [kind |-> "SpringPendulum", x |-> x, v |-> v,
                 prev |-> anchor, bob |-> bob],
        out |-> bob]

\* ------------------------------------------------------------------ SimplePhysicsSystem

new_rigid_pendulum == RigidPendulumSystem_default

new_spring_pendulum == SpringPendulumSystem_default

\* Mutant: the two branches of the match are exchanged.
SimplePhysicsSystem_tick_swapped(sys, anchor, props, dt) ==
    IF sys.kind = "RigidPendulum"
    THEN SpringPendulumSystem_tick(
             [kind |-> "SpringPendulum", x |-> sys.theta, v |-> sys.omega,
              prev |-> sys.prev, bob |-> sys.bob], anchor, props, dt)
    ELSE RigidPendulumSystem_tick(
             [kind |-> "RigidPendulum", theta |-> sys.x, omega |-> sys.v,
              prev |-> sys.prev, bob |-> sys.bob], anchor, props, dt)

SimplePhysicsSystem_tick(sys, anchor, props, dt) ==
    IF sys.kind = "RigidPendulum"
    THEN RigidPendulumSystem_tick(sys, anchor, props, dt)
    ELSE SpringPendulumSystem_tick(sys, anchor, props, dt)

\* ------------------------------------------------------------------ SimplePhysics (driver)

\* ParamMapMode
MapModes == {"AngleLength", "XY"}

\* The mapping of step (3) of the update pass: AngleLength projects an angle (quarter
\* turns) and a length to Cartesian components, XY takes the components directly.
MapOutput(mode, v) ==
    IF mode = "XY" THEN v
    ELSE Vec2(FMul(v.y, IF v.x.fin THEN Fin(Sin(v.x.v)) ELSE v.x),
              FMul(v.y, IF v.x.fin THEN Fin(Cos(v.x.v)) ELSE v.x))

\* Mutant: tick also stores the new output as the anchor.
SimplePhysics_tick_moves_anchor(d, dt) ==
    LET r == SimplePhysicsSystem_tick(d.system, d.anchor, d.props, dt)
    IN [d EXCEPT !.system = r.sys, !.output = r.out, !.anchor = r.out]

\* Mutant: tick maps the model's result by the driver's mapping mode.
SimplePhysics_tick_mapped(d, dt) ==
    LET r == SimplePhysicsSystem_tick(d.system, d.anchor, d.props, dt)
    IN [d EXCEPT !.system = r.sys, !.output = MapOutput(d.map_mode, r.out)]

\* Mutant: tick stretches dt by the number of frames the puppet has seen so far.
SimplePhysics_tick_clock(d, dt) ==
    LET r == SimplePhysicsSystem_tick(d.system, d.anchor, d.props, dt + frames)
    IN [d EXCEPT !.system = r.sys, !.output = r.out]

SimplePhysics_tick(d, dt) ==
    LET r == SimplePhysicsSystem_tick(d.system, d.anchor, d.props, dt)
    IN [d EXCEPT !.system = r.sys, !.output = r.out]

\* A NodeRenderCtx: the node's position in its local and in world space.
NodeRenderCtx(v) == [local |-> v, world |-> VAdd(v, VecI(0, 1))]

\* SimplePhysics::update: read the anchor from the node's render context (respecting
\* local_only), tick the model once with dt, map the output by the mapping mode.
SimplePhysics_update(d, dt, nrc) ==
    LET a == IF d.local_only THEN nrc.local ELSE nrc.world
        d1 == SimplePhysics_tick([d EXCEPT !.anchor = a], dt)
    IN [driver |-> d1, output |-> MapOutput(d1.map_mode, d1.output)]

\* ------------------------------------------------------------------ Puppet

Uuids == {1, 2, 3}
ParamIds == {11, 12}

NoNode == [present |-> FALSE]
OtherNode(u) == [present |-> TRUE, uuid |-> u, data |-> [tag |-> "Other"]]
PhysicsNode(u, d) ==
    [present |-> TRUE, uuid |-> u, data |-> [tag |-> "SimplePhysics", sp |-> d]]

IsPhysics(ns, u) == ns[u].present /\ ns[u].data.tag = "SimplePhysics"

\* Puppet::set_param: store the value under the parameter's id.
set_param(ps, param_uuid, val) == [ps EXCEPT ![param_uuid] = val]

\* One pass through the body of the loop of update_physics, for one driver id; st is
\* the puppet ([nodes, params]) with panicked (the call unwound) and the call's log.
update_physics_body(st, driver_uuid, dt, ctx) ==
    IF ~st.nodes[driver_uuid].present
    THEN [st EXCEPT !.log = Append(@, [uuid |-> driver_uuid, ev |-> "skip"])]
    ELSE IF st.nodes[driver_uuid].data.tag # "SimplePhysics"
    THEN [st EXCEPT !.log = Append(@, [uuid |-> driver_uuid, ev |-> "skip"])]
    ELSE IF st.nodes[driver_uuid].uuid \notin DOMAIN ctx
    THEN [st EXCEPT !.panicked = TRUE,
                    !.log = Append(@, [uuid |-> driver_uuid, ev |-> "panic"])]
    ELSE CHOOSE next \in
            {[nodes |-> [st.nodes EXCEPT ![driver_uuid].data.sp = r.driver],
              params |-> set_param(st.params, r.driver.param, r.output),
              panicked |-> FALSE,
              log |-> Append(st.log, [uuid |-> driver_uuid, ev |-> "write", dt |-> dt,
                                      param |-> r.driver.param, val |-> r.output])] :
             r \in {SimplePhysics_update(st.nodes[driver_uuid].data.sp, dt,
                                         ctx[st.nodes[driver_uuid].uuid])}} : TRUE

\* The loop over the snapshot ds of the driver list; a panic ends it.
RECURSIVE update_physics_loop(_, _, _, _)
update_physics_loop(st, ds, dt, ctx) ==
    IF ds = <<>> \/ st.panicked THEN st
    ELSE CHOOSE end \in
            {update_physics_loop(next, Tail(ds), dt, ctx) :
             next \in {update_physics_body(st, Head(ds), dt, ctx)}} : TRUE

\* Puppet::update_physics(dt), the whole call.
update_physics(ns, ps, ds, dt, ctx) ==
    update_physics_loop([nodes |-> ns, params |-> ps, panicked |-> FALSE, log |-> <<>>],
                        ds, dt, ctx)

\* ------------------------------------------------------------------ state machine

Dts == {1, 2}
Anchors == {ZERO, VecI(1, 0), Vec2(NaN, Fin(0)), Vec2(Fin(0), Inf)}
Positions == {VecI(1, 0), Vec2(NaN, Fin(0))}

\* The puppets the model starts from: the driver list, and what node 3 is.
Puppets ==
    {[drivers |-> <<1, 3, 2>>, n3 |-> NoNode],
     [drivers |-> <<3, 2, 1>>, n3 |-> OtherNode(3)],
     [drivers |-> <<2, 1>>, n3 |-> NoNode]}
CtxChoices == {{1, 2}, {1}, {2}}

\* A driver as the puppet loader builds it: fresh model, output at the model's rest.
NewDriver(param, system, mode, props, local_only) ==
    [param |-> param, system |-> system, map_mode |-> mode, props |-> props,
     local_only |-> local_only, anchor |-> ZERO, output |-> system.bob]

Init ==
    \E p \in PropsChoices, pu \in Puppets, cs \in CtxChoices :
        /\ nodes = (1 :> PhysicsNode(1, NewDriver(11, new_rigid_pendulum, "AngleLength", p, TRUE))
                    @@ 2 :> PhysicsNode(2, NewDriver(12, new_spring_pendulum, "XY", p, FALSE))
                    @@ 3 :> pu.n3)
        /\ drivers = pu.drivers
        /\ render_ctx = [u \in cs |-> NodeRenderCtx(ZERO)]
        /\ params = [i \in ParamIds |-> ZERO]
        /\ panicked = FALSE
        /\ frames = 0
        /\ hist = [u \in {1, 2} |-> [d0 |-> nodes[u].data.sp, steps |-> <<>>]]
        /\ last = [op |-> "init"]

\* One frame: the node graph has placed the nodes (pos), then the puppet's
\* update_physics(dt) runs over the driver list.
UpdatePhysics ==
    \E dt \in Dts, pos \in [DOMAIN render_ctx -> Positions] :
        /\ ~panicked
        /\ frames < MaxFrames
        /\ render_ctx' = [u \in DOMAIN render_ctx |-> NodeRenderCtx(pos[u])]
        /\ \E r \in {update_physics(nodes, params, drivers, dt, render_ctx')} :
           LET written == {r.log[i].uuid : i \in {j \in DOMAIN r.log : r.log[j].ev = "write"}}
           IN /\ nodes' = r.nodes
              /\ params' = r.params
              /\ panicked' = r.panicked
              /\ hist' = [u \in DOMAIN hist |->
                            IF u \in written
                            THEN [hist[u] EXCEPT !.steps =
                                    Append(@, [anchor |-> r.nodes[u].data.sp.anchor,
                                               dt |-> dt,
                                               out |-> r.nodes[u].data.sp.output])]
                            ELSE hist[u]]
              /\ last' = [op |-> "update_physics", dt |-> dt, nodes |-> nodes,
                          params |-> params, log |-> r.log]
        /\ frames' = frames + 1
        /\ UNCHANGED drivers

\* The owner of a driver stores the frame's anchor a in it and ticks it:
\* SimplePhysics::tick(dt).
Tick ==
    \E u \in {1, 2}, a \in Anchors, dt \in Dts :
        /\ ~panicked
        /\ frames < MaxFrames
        /\ \E d \in {[nodes[u].data.sp EXCEPT !.anchor = a]} :
           \E d1 \in {SimplePhysics_tick(d, dt)} :
              /\ nodes' = [nodes EXCEPT ![u].data.sp = d1]
              /\ hist' = [hist EXCEPT ![u].steps =
                            Append(@, [anchor |-> a, dt |-> dt, out |-> d1.output])]
              /\ last' = [op |-> "tick", uuid |-> u, dt |-> dt, pre |-> d, post |-> d1]
        /\ frames' = frames + 1
        /\ UNCHANGED <<drivers, render_ctx, params, panicked>>

\* A model asks a driver's parameter set for its final angular damping.
CallFinalAngleDamping ==
    \E u \in {1, 2} :
        /\ UNCHANGED <<nodes, drivers, render_ctx, params, panicked, frames, hist>>
        /\ last' = [op |-> "final_angle_damping", pre |-> nodes[u].data.sp.props,
                    ret |-> final_angle_damping(nodes[u].data.sp.props),
                    post |-> nodes'[u].data.sp.props]

\* A model asks a driver's parameter set for its final length damping.
CallFinalLengthDamping ==
    \E u \in {1, 2} :
        /\ UNCHANGED <<nodes, drivers, render_ctx, params, panicked, frames, hist>>
        /\ last' = [op |-> "final_length_damping", pre |-> nodes[u].data.sp.props,
                    ret |-> final_length_damping(nodes[u].data.sp.props),
                    post |-> nodes'[u].data.sp.props]

Next ==
    \/ UpdatePhysics
    \/ Tick

Spec == Init /\ [][Next]_vars

\* The parameter-set accessors on their own: a puppet whose first driver carries any
\* parameter set of PropsDomain, and the two accessors called on the drivers' sets.
InitProps ==
    \E p \in PropsDomain :
        /\ nodes = (1 :> PhysicsNode(1, NewDriver(11, new_rigid_pendulum, "AngleLength", p, TRUE))
                    @@ 2 :> PhysicsNode(2, NewDriver(12, new_spring_pendulum, "XY",
                                                     Props(1, 1, 2, 2, 3), FALSE))
                    @@ 3 :> NoNode)
        /\ drivers = <<1, 2>>
        /\ render_ctx = [u \in {1, 2} |-> NodeRenderCtx(ZERO)]
        /\ params = [i \in ParamIds |-> ZERO]
        /\ panicked = FALSE
        /\ frames = 0
        /\ hist = [u \in {1, 2} |-> [d0 |-> nodes[u].data.sp, steps |-> <<>>]]
        /\ last = [op |-> "init"]

NextProps ==
    \/ CallFinalAngleDamping
    \/ CallFinalLengthDamping

SpecProps == InitProps /\ [][NextProps]_vars

\* ------------------------------------------------------------------ claims

\* C1: final_angle_damping() returns exactly angle_damping * offset_angle_damping and
\* final_length_damping() exactly length_damping * offset_length_damping: the product
\* of the two fields, the same for every parameter set that agrees on these two
\* fields, and the call leaves the parameter set as it was.
C1_FinalDampingIsProduct ==
    /\ last.op = "final_angle_damping" =>
        /\ last.ret = Fin(last.pre.angle_damping.v * last.pre.offset_angle_damping.v)
        /\ \A q \in PropsDomain :
              (/\ q.angle_damping = last.pre.angle_damping
               /\ q.offset_angle_damping = last.pre.offset_angle_damping)
              => final_angle_damping(q) = last.ret
        /\ last.post = last.pre
    /\ last.op = "final_length_damping" =>
        /\ last.ret = Fin(last.pre.length_damping.v * last.pre.offset_length_damping.v)
        /\ \A q \in PropsDomain :
              (/\ q.length_damping = last.pre.length_damping
               /\ q.offset_length_damping = last.pre.offset_length_damping)
              => final_length_damping(q) = last.ret
        /\ last.post = last.pre

\* C1 witness: the angular accessor was called on damping 2 with offset 3 (product 6,
\* sum 5).
C1_Witness ==
    /\ last.op = "final_angle_damping"
    /\ last.pre.angle_damping = Fin(2)
    /\ last.pre.offset_angle_damping = Fin(3)
    /\ last.ret = Fin(6)

\* ------------------------------------------------------------------ helpers of the claims

\* The drivers of a list that update_physics can serve: the node is there, it carries
\* SimplePhysics data and the render context has an entry for it.
Available(ns, u) == IsPhysics(ns, u) /\ u \in DOMAIN render_ctx

\* Positions of the log of the last update_physics call with event ev for driver u.
LogOf(u, ev) == {i \in DOMAIN last.log : last.log[i].uuid = u /\ last.log[i].ev = ev}

InList(u) == \E i \in DOMAIN drivers : drivers[i] = u

\* Every order of a driver list.
Orders(ds) == {[i \in DOMAIN ds |-> ds[f[i]]] : f \in Permutations(DOMAIN ds)}

OtherMode(m) == IF m = "XY" THEN "AngleLength" ELSE "XY"

\* A fresh copy of driver d0 ticked with the recorded anchors and dts, one after the
\* other: the driver it ends as, and whether every output was the recorded one.
RECURSIVE Replay(_, _, _)
Replay(d, steps, same) ==
    IF steps = <<>> THEN [driver |-> d, same |-> same]
    ELSE CHOOSE end \in
            {Replay(d1, Tail(steps), same /\ d1.output = Head(steps).out) :
             d1 \in {SimplePhysics_tick([d EXCEPT !.anchor = Head(steps).anchor],
                                        Head(steps).dt)}} : TRUE

\* ------------------------------------------------------------------ C2

\* C2 (as claimed): in update_physics, a driver id with no node, or whose node has no
\* SimplePhysics data, is skipped: the call raises no error, the node is unchanged,
\* nothing is written for it, and every other driver of the list is still processed
\* (reached by the loop and served or skipped) in the same call.
C2_SkippedDriverKeepsTheFrame ==
    last.op = "update_physics" =>
        \A i \in DOMAIN drivers :
            ~IsPhysics(last.nodes, drivers[i]) =>
                /\ ~panicked
                /\ nodes[drivers[i]] = last.nodes[drivers[i]]
                /\ LogOf(drivers[i], "write") = {}
                /\ \A j \in DOMAIN drivers :
                      j # i => LogOf(drivers[j], "write") \cup LogOf(drivers[j], "skip") # {}

\* ------------------------------------------------------------------ C3

\* C3 (as claimed): in update_physics, a driver whose node carries SimplePhysics data
\* but has no render-context entry is the only one skipped: the call does not fail,
\* and every driver that can be served is updated and its parameter written.
C3_MissingRenderCtxSkipsOnlyThatDriver ==
    last.op = "update_physics" =>
        \A i \in DOMAIN drivers :
            (IsPhysics(last.nodes, drivers[i]) /\ drivers[i] \notin DOMAIN render_ctx) =>
                /\ ~panicked
                /\ nodes[drivers[i]] = last.nodes[drivers[i]]
                /\ \A j \in DOMAIN drivers :
                      Available(last.nodes, drivers[j]) => LogOf(drivers[j], "write") # {}

\* ------------------------------------------------------------------ C4

\* C4: a tick with a non-finite anchor leaves the driver's output as it was and does
\* not advance the model, and the output stays finite; the same when the non-finite
\* anchor reaches the driver through update_physics.
C4_NonFiniteAnchorHoldsOutput ==
    /\ (last.op = "tick" /\ ~IsFinite(last.pre.anchor)) =>
          /\ last.post.output = last.pre.output
          /\ last.post.system = last.pre.system
          /\ IsFinite(last.post.output)
    /\ last.op = "update_physics" =>
          \A u \in {1, 2} :
              (LogOf(u, "write") # {} /\ ~IsFinite(nodes[u].data.sp.anchor)) =>
                  /\ nodes[u].data.sp.output = last.nodes[u].data.sp.output
                  /\ nodes[u].data.sp.system = last.nodes[u].data.sp.system
                  /\ IsFinite(nodes[u].data.sp.output)

\* C4 witness: a driver that had already moved its output away from the rest position
\* was ticked with a non-finite anchor.
C4_Witness ==
    /\ last.op = "tick"
    /\ ~IsFinite(last.pre.anchor)
    /\ last.pre.output # VecI(0, 1)
    /\ last.pre.system.kind = "RigidPendulum"

\* ------------------------------------------------------------------ C5

C6_OrderOfDriversIsIrrelevant ==
    last.op = "update_physics" =>
        \A ds \in Orders(drivers) :
            \A b \in {update_physics(last.nodes, last.params, ds, last.dt, render_ctx)} :
                /\ b.nodes = nodes
                /\ b.params = params
                /\ b.panicked = panicked

\* ------------------------------------------------------------------ C7

C8_EveryAvailableDriverOnce ==
    last.op = "update_physics" =>
        /\ \A u \in Uuids :
              (InList(u) /\ Available(last.nodes, u)) =>
                  /\ Cardinality(LogOf(u, "write")) = 1
                  /\ \A i \in LogOf(u, "write") :
                        /\ last.log[i].dt = last.dt
                        /\ last.log[i].param = last.nodes[u].data.sp.param
                        /\ \A r \in {SimplePhysics_update(last.nodes[u].data.sp, last.dt,
                                                          render_ctx[u])} :
                              /\ last.log[i].val = r.output
                              /\ nodes[u].data.sp = r.driver
                              /\ params[last.log[i].param] = r.output
        /\ \A i \in DOMAIN last.log :
              last.log[i].ev = "write" =>
                  InList(last.log[i].uuid) /\ Available(last.nodes, last.log[i].uuid)

\* ------------------------------------------------------------------ C9

\* C9: new_rigid_pendulum() is the RigidPendulum variant and new_spring_pendulum() the
\* SpringPendulum variant, each at rest with zero velocity; SimplePhysicsSystem::tick
\* gives the result of the tick of the variant the system holds, for the same anchor,
\* parameter set and dt; and a system keeps the variant it was constructed with.
C9_ClosedUnionDispatch ==
    /\ new_rigid_pendulum.kind = "RigidPendulum"
    /\ new_rigid_pendulum.theta = 0 /\ new_rigid_pendulum.omega = 0
    /\ new_spring_pendulum.kind = "SpringPendulum"
    /\ new_spring_pendulum.x = 0 /\ new_spring_pendulum.v = 0
    /\ hist[1].d0.system = RigidPendulumSystem_default
    /\ hist[2].d0.system = SpringPendulumSystem_default
    /\ \A u \in {1, 2} : nodes[u].data.sp.system.kind = hist[u].d0.system.kind
    /\ last.op = "tick" =>
          \A r \in {IF last.pre.system.kind = "RigidPendulum"
                    THEN RigidPendulumSystem_tick(last.pre.system, last.pre.anchor,
                                                  last.pre.props, last.dt)
                    ELSE SpringPendulumSystem_tick(last.pre.system, last.pre.anchor,
                                                   last.pre.props, last.dt)} :
              /\ last.pre.system.kind \in {"RigidPendulum", "SpringPendulum"}
              /\ last.post.system = r.sys
              /\ last.post.output = r.out

\* C9 witness: a spring pendulum that had left its default state was ticked again.
C9_Witness ==
    /\ last.op = "tick"
    /\ last.pre.system.kind = "SpringPendulum"
    /\ last.pre.system # SpringPendulumSystem_default
    /\ last.post.system # last.pre.system

\* ------------------------------------------------------------------ C10

\* C10: SimplePhysics::tick(dt) replaces the driver's output by what the model's tick
\* returns for the stored anchor, the parameter set and dt, advances at most the
\* model's state, and leaves param, map_mode, props, local_only and anchor alone.
C10_TickFrame ==
    last.op = "tick" =>
        \A r \in {SimplePhysicsSystem_tick(last.pre.system, last.pre.anchor,
                                           last.pre.props, last.dt)} :
            /\ last.post.output = r.out
            /\ last.post.system = r.sys
            /\ last.post.param = last.pre.param
            /\ last.post.map_mode = last.pre.map_mode
            /\ last.post.props = last.pre.props
            /\ last.post.local_only = last.pre.local_only
            /\ last.post.anchor = last.pre.anchor

\* C10 witness: a tick with a finite, moved anchor changed the output and the model.
C10_Witness ==
    /\ last.op = "tick"
    /\ last.pre.anchor = VecI(1, 0)
    /\ last.post.output # last.pre.output
    /\ last.post.system # last.pre.system

====
